---- MODULE Spec2Model ----
(***************************************************************************)
(* A model of the UDP client of this repository (src/client.c): the read   *)
(* loop of main() and, statement block by statement block, the tokenizer   *)
(* parseLine().                                                            *)
(*                                                                         *)
(* A line is a sequence of characters, each a one-character string; the    *)
(* terminating NUL of the C string is the character read at index          *)
(* Len(line) + 1.  Indices are 1-based: the C pointer `pos` is modelled by *)
(* the index of the character it points at.                                *)
(*                                                                         *)
(* cJSON is an external library.  A cJSON object is modelled as the        *)
(* sequence of its items, in list order; allocation is taken to succeed.   *)
(***************************************************************************)
EXTENDS Integers, Sequences, FiniteSets, TLC

VARIABLES
    file,       \* main: the lines getline() has not yet returned
    line,       \* parseLine: the line being parsed (without its NUL)
    pos,        \* parseLine: current read position
    keyStart,   \* parseLine: where the current key began (0: not yet set)
    valueStart, \* parseLine: where the current unquoted value began (0: not yet set)
    key,        \* parseLine: the key buffer, up to its NUL
    value,      \* parseLine: the value buffer, the valueLen bytes written so far
    obj,        \* parseLine: the items of the cJSON object under construction
    pairCount,  \* parseLine: number of key:value pairs added
    warnings,   \* the warnings parseLine printed during the current call
    result,     \* what parseLine returned: NULL or an object
    pc,         \* position in the code
    spans,      \* history: <<first, last>> index of the text of each pair added
    parsed,     \* history: the lines handed to parseLine so far, in order
    sends,      \* history: the objects for which sendto() was called, in order
    outcomes,   \* history: what each call of parseLine returned and printed, in order
    sentCount,  \* main: number of successful sends
    args,       \* validateArguments: the command line
    idx,        \* validateArguments: i, the index of the digit loop
    conv,       \* strtol: the width of a long, the digits read, their value so far
    port,       \* validateArguments: *port, the two 16-bit halves of the int
    bytesReceived, \* server: what recvfrom() returned
    nulIndex    \* server history: the index of buffer the NUL was written at

vars == <<file, line, pos, keyStart, valueStart, key, value, obj, pairCount,
          warnings, result, pc, spans, parsed, sends, outcomes, sentCount,
          args, idx, conv, port, bytesReceived, nulIndex>>

locals == <<keyStart, valueStart, key, value, obj, pairCount, spans>>
mainVars == <<file, parsed, sends, outcomes, sentCount>>
argVars == <<args, idx, conv, port>>
serverVars == <<bytesReceived, nulIndex>>

----------------------------------------------------------------------------
(* Program constants *)

MAX_TOKEN == 1024

(* Characters.  NUL is the string terminator, VT the vertical tab. *)
NUL == "NUL"
VT == "VT"
(* What parseLine returns: NULL, or the pointer to an object with these   *)
(* items                                                                   *)
NULL == [null |-> TRUE, items |-> <<>>]
Object(o) == [null |-> FALSE, items |-> o]

(* The type of a cJSON item that holds a string *)
cJSON_String == "cJSON_String"

(* A test that knows the space and the tab only *)
IsSpaceOrTab(c) == c \in {" ", "\t"}

(* isspace() of <ctype.h> in the C locale *)
isspace(c) == c \in {" ", "\t", "\n", VT, "\f", "\r"}

(* The character the pointer p points at *)
CharAt(p) == IF p \in 1..Len(line) THEN line[p] ELSE NUL

cur == CharAt(pos)

----------------------------------------------------------------------------
(* Model bounds and the inputs *)

MaxLen == 4
MaxPairs == 3

Alphabet == {"a", "n", ":", " ", "\"", "\\", "\n"}

RECURSIVE SeqsUpTo(_, _)
SeqsUpTo(S, n) ==
    IF n = 0 THEN {<<>>}
    ELSE LET shorter == SeqsUpTo(S, n - 1)
         IN  shorter \cup {Append(s, c) : s \in {t \in shorter : Len(t) = n - 1}, c \in S}

(* Every line of at most MaxLen characters of the alphabet *)
CharLines == SeqsUpTo(Alphabet, MaxLen)

(* Lines of several pairs: up to MaxPairs well-formed pairs, joined by one *)
(* of the separators, and then one of the tails                            *)
GoodPieces ==
    { <<"a", ":", "n">>,                               \* a:n
      <<"n", ":", "a">>,                               \* n:a
      <<"n", ":", "\"", "a", " ", "n", "\"">>,         \* n:"a n"
      <<"a", ":", "\"", "\\", "n", "\\", "\"", "\"">>  \* a:"\n\""
    }

Separators == { <<>>, <<" ">>, <<"\t", " ">> }

Tails ==
    { <<>>,
      <<"\n">>,
      <<" ", "\n">>,
      <<":", "a">>,                        \* :a        empty key
      <<"a", ":">>,                        \* a:        bare key
      <<"a", ":", "\n">>,                  \* a:        bare key, end of line
      <<"a">>,                             \* a         no colon
      <<"a", "\n">>,                       \* a         no colon, end of line
      <<"a", ":", "\"", "n">>,             \* a:"n      unclosed quote
      <<"n", ":", "\"", "\\", "a", "\"">>, \* n:"\a"    unknown escape
      <<"a", ":", "\"", "n", "\\">>,       \* a:"n\     backslash at the end of input
      <<"a", ":", "\"", "\\", "\n">>,      \* a:"\      backslash at the end of the line
      <<"\n", "n", ":", "a">>              \* a second line
    }

RECURSIVE Join(_, _)
Join(pieces, sep) ==
    IF pieces = <<>> THEN <<>>
    ELSE IF Len(pieces) = 1 THEN pieces[1]
    ELSE pieces[1] \o sep \o Join(Tail(pieces), sep)

PairLines ==
    { IF goods = <<>> \/ tail = <<>> THEN Join(goods, sep) \o tail
      ELSE Join(goods, sep) \o sep \o tail :
        goods \in SeqsUpTo(GoodPieces, MaxPairs), sep \in Separators, tail \in Tails }

(* Lines whose key or value is about MAX_TOKEN bytes long *)
Rep(c, n) == [i \in 1..n |-> c]

BoundaryLengths == (MAX_TOKEN - 2)..(MAX_TOKEN + 1)

BoundaryLines ==
    UNION { { Rep("a", n) \o <<":", "a">>,                                \* key of n bytes
              <<"a", ":">> \o Rep("a", n),                                \* unquoted value of n bytes
              <<"a", ":", "\"">> \o Rep("a", n - 2) \o <<"\"">>,          \* quoted, n bytes stored
              <<"a", ":", "\"", "\\", "n">> \o Rep("a", n - 3) \o <<"\"">>, \* the same, an escape first
              <<"a", ":", "\"">> \o Rep("a", n - 3) \o <<"\\", "t", "\"">>  \* the same, an escape last
            } : n \in BoundaryLengths }

(* The lines the specification names, and lines with the other whitespace *)
(* characters                                                              *)
SampleLines ==
    { <<"n", "a", "m", "e", ":", "A", "l", "i", "c", "e", " ", "a", "g", "e", ":", "3", "0",
        " ", "a", "c", "t", "i", "v", "e", ":", "t", "r", "u", "e">>, \* name:Alice age:30 active:true
      <<" ", " ", " ">>,
      <<" ", "\r">>,                                                 \* a blank line, CR before the LF
      <<"b", "a", "d", " ", "k", "e", "y", ":", "x">>,                \* bad key:x
      <<"a", ":", "1", " ", "b", ":">>,                               \* a:1 b:
      <<"m", "s", "g", ":", "\"", "h", "i", "\\", "t", "t", "h", "e", "r", "e", "\"">>, \* msg:"hi\tthere"
      <<"a", ":", "1", " ", ":", "b", "a", "d">>,                     \* a:1 :bad
      <<"m", "s", "g", ":", "\"", "h", "e", "l", "l", "o", " ", "\\", "\"", "w", "o", "r", "l",
        "d", "\\", "\"", "\"">>,                                      \* msg:"hello \"world\""
      <<"k", ":", "\"", "a", "\\", "\"", "b", "\"">>,                 \* k:"a\"b"
      <<"k", ":", "T", "R", "U", "E">>,
      <<"k", ":", "T", "r", "u", "e">>,
      <<"k", ":", "f", "a", "l", "s", "e">>,
      <<"k", ":", "t", "r", "u", "e", "e">>,
      <<"k", ":", "4", "2">>,
      <<"k", ":", "3", ".", "1", "4", "e", "-", "2">>,
      <<"k", ":", "1", "e", "1", "0", "x">>,
      <<"k", ":", "3", ".", "1", "4", "e", "-", "2", "x">>,
      <<"k", ":", "\"", "t", "r", "u", "e", "\"">>,                   \* k:"true"
      <<"k", ":", "\"", "4", "2", "\"">>,                             \* k:"42"
      <<"a", ":", "1", "\r">>,
      <<"a", "\t", "b", ":", "1">>,
      <<"a", ":", "\t", "1">>,
      <<"a", ":", "1", VT, "\f", "b", ":", "2">>,
      <<"k", ":", "\"", "\\", "\"", "\\", "\\", "\\", "n", "\\", "t", "\\", "r", "\"">> \* k:"\"\\\n\t\r"
    }

(* getline() keeps the line terminator: each sample with and without it *)
Lines ==
    CharLines \cup PairLines \cup BoundaryLines
        \cup SampleLines \cup {l \o <<"\n">> : l \in SampleLines}

(* Files of several lines, as getline() delivers them: up to MaxLines      *)
(* lines, each with its line terminator, the last one with or without it   *)
MaxLines == 3

FileLines ==
    { <<"a", ":", "n", "\n">>,                                   \* a Record of one pair
      <<"n", ":", "\"", "a", "\"", " ", "a", ":", "n", "\n">>,   \* a Record of two pairs
      <<" ", "\n">>,                                             \* Empty
      <<"a", ":", "n", " ", "n", "\n">>                          \* a failure after a pair
    }

Unterminated(f) ==
    [k \in 1..Len(f) |-> IF k = Len(f) THEN SubSeq(f[k], 1, Len(f[k]) - 1) ELSE f[k]]

MultiFiles ==
    LET fs == SeqsUpTo(FileLines, MaxLines)
    IN  fs \cup {Unterminated(f) : f \in {g \in fs : g # <<>>}}

Files == {<<l>> : l \in Lines} \cup MultiFiles

(* A string, and the string truncated at its first line terminator *)
Truncate(l) ==
    IF \E k \in 1..Len(l) : l[k] = "\n"
    THEN SubSeq(l, 1, (CHOOSE k \in 1..Len(l) :
                          l[k] = "\n" /\ \A j \in 1..(k - 1) : l[j] # "\n") - 1)
    ELSE l

TruncationFiles ==
    {<<l, Truncate(l)>> : l \in {m \in CharLines \cup PairLines : Truncate(m) # m}}

(* The command lines: the port argument is every string of at most        *)
(* MaxPortLen of these characters, and the strings about the limits of    *)
(* the port range, of the int and of the long                              *)
MaxPortLen == 3

PortChars == {"0", "5", "6", "a", "-"}

LimitPorts ==
    {
      <<"6", "5", "5", "3", "5">>,                               \* 65535
      <<"6", "5", "5", "3", "6">>,                               \* 65536
      <<"0", "6", "5", "5", "3", "5">>,                          \* 065535
      <<"9", "9", "9", "9", "9">>,                               \* 99999
      <<"1", "0", "0", "0", "0", "0">>,                          \* 100000
      <<"2", "1", "4", "7", "4", "8", "3", "6", "4", "7">>,      \* 2147483647
      <<"2", "1", "4", "7", "4", "8", "3", "6", "4", "8">>,      \* 2147483648
      <<"4", "2", "9", "4", "9", "6", "7", "2", "9", "5">>,      \* 4294967295
      <<"4", "2", "9", "4", "9", "6", "7", "2", "9", "6">>,      \* 4294967296
      <<"4", "2", "9", "4", "9", "6", "7", "3", "7", "6">>,      \* 4294967376
      <<"4", "2", "9", "5", "0", "3", "2", "8", "3", "1">>,      \* 4295032831
      <<"4", "2", "9", "5", "0", "3", "2", "8", "3", "2">>,      \* 4295032832
      <<"9", "2", "2", "3", "3", "7", "2", "0", "3", "6", "8", "5", "4", "7", "7", "5", "8", "0", "7">>, \* 9223372036854775807
      <<"9", "2", "2", "3", "3", "7", "2", "0", "3", "6", "8", "5", "4", "7", "7", "5", "8", "0", "8">>, \* 9223372036854775808
      <<"1", "8", "4", "4", "6", "7", "4", "4", "0", "7", "3", "7", "0", "9", "5", "5", "1", "6", "1", "6">>, \* 18446744073709551616
      <<"1", "8", "4", "4", "6", "7", "4", "4", "0", "7", "3", "7", "0", "9", "5", "5", "1", "6", "9", "6">>, \* 18446744073709551696
      <<"8", "0", "8", "0">>,                                    \* 8080
      <<" ", "8", "0">>,                                         \* _80
      <<"+", "8", "0">>,                                         \* +80
      <<"8", "0", " ">>,                                         \* 80_
      <<"0", "x", "5", "0">>                                     \* 0x50
    }

PortStrings == SeqsUpTo(PortChars, MaxPortLen) \cup LimitPorts

(* The address argument as inet_pton() reads it: four octets, or nothing  *)
(* when the text is no IPv4 address                                        *)
Addresses ==
    { <<>>, <<223, 255, 255, 255>>, <<224, 0, 0, 1>>, <<239, 0, 0, 1>>, <<240, 0, 0, 0>> }

CommandLines ==
    [argc : {2, 3, 4}, ip : Addresses, port : PortStrings]

----------------------------------------------------------------------------
(* parseLine *)

(* A discard that forgets to drop the pairs already added *)
DiscardKeepsPairs(o) == IF o = <<>> THEN NULL ELSE Object(o)

(* cJSON_Delete(obj); return NULL; *)
DiscardResult(o) == NULL

(* A discard that prints nothing *)
FailSilently(reason) ==
    /\ warnings' = warnings
    /\ result' = DiscardResult(obj)
    /\ obj' = <<>>
    /\ pc' = "returned"
    /\ UNCHANGED <<line, pos, keyStart, valueStart, key, value, pairCount, spans, mainVars, argVars, serverVars>>

(* printf("Warning: ..."); cJSON_Delete(obj); return NULL; *)
Fail(reason) ==
    /\ warnings' = Append(warnings, reason)
    /\ result' = DiscardResult(obj)
    /\ obj' = <<>>
    /\ pc' = "returned"
    /\ UNCHANGED <<line, pos, keyStart, valueStart, key, value, pairCount, spans, mainVars, argVars, serverVars>>

(* main: getline() returns the next line and parseLine is entered *)
GetLine ==
    /\ pc = "getline"
    /\ file # <<>>
    /\ line' = Head(file)
    /\ file' = Tail(file)
    /\ parsed' = Append(parsed, Head(file))
    /\ pos' = 1
    /\ keyStart' = 0
    /\ valueStart' = 0
    /\ key' = <<>>
    /\ value' = <<>>
    /\ obj' = <<>>
    /\ pairCount' = 0
    /\ spans' = <<>>
    /\ warnings' = <<>>
    /\ result' = NULL
    /\ pc' = "skipLead"
    /\ UNCHANGED <<sends, outcomes, sentCount, argVars, serverVars>>

(* Step 1: skip leading whitespace *)
SkipLeading ==
    /\ pc = "skipLead"
    /\ IF cur # NUL /\ isspace(cur)
       THEN pos' = pos + 1 /\ pc' = pc
       ELSE pos' = pos /\ pc' = "checkEmpty"
    /\ UNCHANGED <<line, locals, warnings, result, mainVars, argVars, serverVars>>

(* The empty-line test, and step 2: create the (empty) cJSON object *)
CheckEmpty ==
    /\ pc = "checkEmpty"
    /\ IF cur = NUL \/ cur = "\n"
       THEN /\ result' = NULL
            /\ pc' = "returned"
            /\ obj' = obj
       ELSE /\ obj' = <<>>
            /\ pc' = "loop"
            /\ result' = result
    /\ UNCHANGED <<line, pos, keyStart, valueStart, key, value, pairCount,
                   spans, warnings, mainVars, argVars, serverVars>>

(* Step 3: the condition of the main parsing loop *)
LoopTest ==
    /\ pc = "loop"
    /\ pc' = IF cur # NUL /\ cur # "\n" THEN "skipWs" ELSE "finish"
    /\ UNCHANGED <<line, pos, locals, warnings, result, mainVars, argVars, serverVars>>

(* Skip whitespace between pairs; break at the end of the line; else the  *)
(* key starts here.                                                        *)
SkipBetween ==
    /\ pc = "skipWs"
    /\ IF cur # NUL /\ cur # "\n" /\ isspace(cur)
       THEN /\ pos' = pos + 1
            /\ pc' = pc
            /\ keyStart' = keyStart
       ELSE IF cur = NUL \/ cur = "\n"
       THEN /\ pos' = pos
            /\ pc' = "finish"
            /\ keyStart' = keyStart
       ELSE /\ pos' = pos
            /\ keyStart' = pos
            /\ pc' = "keyScan"
    /\ UNCHANGED <<line, valueStart, key, value, obj, pairCount, spans,
                   warnings, result, mainVars, argVars, serverVars>>

(* A key scan that does not test for the end of the string *)
IsKeyCharPastNul(c) == c # ":" /\ ~isspace(c) /\ c # "\"" /\ c # "\\"

(* The condition of the key scan: the characters a key is made of *)
IsKeyChar(c) ==
    c # NUL /\ c # "\n" /\ c # ":" /\ ~isspace(c) /\ c # "\"" /\ c # "\\"

KeyScan ==
    /\ pc = "keyScan"
    /\ IF IsKeyChar(cur)
       THEN pos' = pos + 1 /\ pc' = pc
       ELSE pos' = pos /\ pc' = "keyCheck"
    /\ UNCHANGED <<line, locals, warnings, result, mainVars, argVars, serverVars>>

(* The warning printed for the character, other than ':', that stopped the *)
(* key scan                                                                *)
KeyStopWarning(c) ==
    IF isspace(c) THEN "WhitespaceInKey"
    ELSE IF c = "\"" THEN "QuoteInKey"
    ELSE IF c = "\\" THEN "BackslashInKey"
    ELSE "MissingColon"

(* keyLen >= MAX_TOKEN, valueLen >= MAX_TOKEN *)
TokenTooLong(len) == len >= MAX_TOKEN

(* What stopped the key scan, the length of the key, the copy into the    *)
(* key buffer and the advance past the ':'                                 *)
KeyCheck ==
    /\ pc = "keyCheck"
    /\ IF cur # ":" THEN Fail(KeyStopWarning(cur))
       ELSE IF pos - keyStart = 0 THEN Fail("EmptyKey")
       ELSE IF TokenTooLong(pos - keyStart) THEN Fail("KeyTooLong")
       ELSE /\ key' = SubSeq(line, keyStart, pos - 1)
            /\ pos' = pos + 1
            /\ pc' = "afterColon"
            /\ UNCHANGED <<line, keyStart, valueStart, value, obj, pairCount,
                           spans, warnings, result, mainVars, argVars, serverVars>>

(* The character after the colon: whitespace is an error, a '"' opens a   *)
(* quoted value (and is stored), anything else starts an unquoted value    *)
AfterColon ==
    /\ pc = "afterColon"
    /\ IF isspace(cur) THEN Fail("WhitespaceAfterColon")
       ELSE IF cur = "\""
       THEN /\ value' = <<"\"">>
            /\ pos' = pos + 1
            /\ pc' = "quoted"
            /\ UNCHANGED <<line, keyStart, valueStart, key, obj, pairCount,
                           spans, warnings, result, mainVars, argVars, serverVars>>
       ELSE /\ valueStart' = pos
            /\ pc' = "unquoted"
            /\ UNCHANGED <<line, pos, keyStart, key, value, obj, pairCount,
                           spans, warnings, result, mainVars, argVars, serverVars>>

(* A test for the trailing backslash that forgets the line terminator *)
IsTrailingAtNulOnly(nextChar) == nextChar = NUL

(* nextChar == '\0' || nextChar == '\n' *)
IsTrailing(nextChar) == nextChar = NUL \/ nextChar = "\n"

(* The cases of the switch on the character after a backslash *)
IsEscape(nextChar) == nextChar \in {"\"", "\\", "n", "t", "r"}

(* A switch that stores the escape letter itself *)
EscapedAsWritten(nextChar) == nextChar

(* The character each escape stands for *)
Escaped(nextChar) ==
    CASE nextChar = "\"" -> "\""
      [] nextChar = "\\" -> "\\"
      [] nextChar = "n" -> "\n"
      [] nextChar = "t" -> "\t"
      [] nextChar = "r" -> "\r"

(* A limit that is one byte too generous *)
ValueFullOffByOne(valueLen) == valueLen >= MAX_TOKEN

(* valueLen >= MAX_TOKEN - 1: no room left for one more byte and the NUL *)
ValueFull(valueLen) == valueLen >= MAX_TOKEN - 1

(* One iteration of the walk through the quoted content, or its end *)
QuotedScan ==
    /\ pc = "quoted"
    /\ IF cur = NUL \/ cur = "\n" \/ cur = "\""
       THEN /\ pc' = "closeQuote"
            /\ UNCHANGED <<line, pos, locals, warnings, result, mainVars, argVars, serverVars>>
       ELSE IF cur = "\\"
       THEN LET nextChar == CharAt(pos + 1)
            IN  IF IsTrailing(nextChar) THEN Fail("TrailingBackslash")
                ELSE IF ~IsEscape(nextChar) THEN Fail("UnknownEscape")
                ELSE IF ValueFull(Len(value)) THEN Fail("ValueTooLong")
                ELSE /\ value' = Append(value, Escaped(nextChar))
                     /\ pos' = pos + 2
                     /\ pc' = pc
                     /\ UNCHANGED <<line, keyStart, valueStart, key, obj,
                                    pairCount, spans, warnings, result, mainVars, argVars, serverVars>>
       ELSE IF ValueFull(Len(value)) THEN Fail("ValueTooLong")
       ELSE /\ value' = Append(value, cur)
            /\ pos' = pos + 1
            /\ pc' = pc
            /\ UNCHANGED <<line, keyStart, valueStart, key, obj, pairCount,
                           spans, warnings, result, mainVars, argVars, serverVars>>

(* After the walk: the closing quote must be there, and is stored *)
CloseQuote ==
    /\ pc = "closeQuote"
    /\ IF cur # "\"" THEN Fail("UnclosedQuote")
       ELSE IF ValueFull(Len(value)) THEN Fail("ValueTooLong")
       ELSE /\ value' = Append(value, "\"")
            /\ pos' = pos + 1
            /\ pc' = "addPair"
            /\ UNCHANGED <<line, keyStart, valueStart, key, obj, pairCount,
                           spans, warnings, result, mainVars, argVars, serverVars>>

(* A walk that does not stop at a backslash *)
IsUnquotedCharLax(c) == c # NUL /\ c # "\n" /\ ~isspace(c)

(* The condition of the walk through an unquoted value *)
IsUnquotedChar(c) == c # NUL /\ c # "\n" /\ ~isspace(c) /\ c # "\\"

UnquotedScan ==
    /\ pc = "unquoted"
    /\ IF IsUnquotedChar(cur)
       THEN pos' = pos + 1 /\ pc' = pc
       ELSE pos' = pos /\ pc' = "unquotedCheck"
    /\ UNCHANGED <<line, locals, warnings, result, mainVars, argVars, serverVars>>

(* After the walk: no backslash, not empty, not too long; copy the value *)
UnquotedCheck ==
    /\ pc = "unquotedCheck"
    /\ IF cur = "\\" THEN Fail("BackslashInUnquotedValue")
       ELSE IF pos - valueStart = 0 THEN Fail("EmptyUnquotedValue")
       ELSE IF TokenTooLong(pos - valueStart) THEN Fail("ValueTooLong")
       ELSE /\ value' = SubSeq(line, valueStart, pos - 1)
            /\ pc' = "addPair"
            /\ UNCHANGED <<line, pos, keyStart, valueStart, key, obj, pairCount,
                           spans, warnings, result, mainVars, argVars, serverVars>>

(* Letters, for comparisons that ignore case *)
UpperCase ==
    <<"A", "B", "C", "D", "E", "F", "G", "H", "I", "J", "K", "L", "M",
      "N", "O", "P", "Q", "R", "S", "T", "U", "V", "W", "X", "Y", "Z">>
LowerCase ==
    <<"a", "b", "c", "d", "e", "f", "g", "h", "i", "j", "k", "l", "m",
      "n", "o", "p", "q", "r", "s", "t", "u", "v", "w", "x", "y", "z">>

ToLower(c) ==
    IF \E i \in 1..Len(UpperCase) : UpperCase[i] = c
    THEN LowerCase[CHOOSE i \in 1..Len(UpperCase) : UpperCase[i] = c]
    ELSE c

EqualsIgnoreCase(text, word) ==
    Len(text) = Len(word) /\ \A i \in 1..Len(text) : ToLower(text[i]) = word[i]

IsTrueLiteral(text) == EqualsIgnoreCase(text, <<"t", "r", "u", "e">>)
IsFalseLiteral(text) == EqualsIgnoreCase(text, <<"f", "a", "l", "s", "e">>)

(* An add that infers the type from the text between the quotes, as if the *)
(* value had not been quoted                                               *)
AddTypedIgnoringQuotes(o, k, v) ==
    LET inner == IF Len(v) >= 2 /\ v[1] = "\"" /\ v[Len(v)] = "\""
                 THEN SubSeq(v, 2, Len(v) - 1) ELSE v
        t == IF IsTrueLiteral(inner) THEN "cJSON_True"
             ELSE IF IsFalseLiteral(inner) THEN "cJSON_False"
             ELSE "cJSON_String"
    IN  Append(o, [string |-> k, type |-> t, valuestring |-> v])

(* An add that replaces the item that has the same key, if there is one *)
AddOrReplace(o, k, v) ==
    LET item == [string |-> k, type |-> "cJSON_String", valuestring |-> v]
    IN  IF \E i \in 1..Len(o) : o[i].string = k
        THEN LET j == CHOOSE i \in 1..Len(o) : o[i].string = k
             IN  SubSeq(o, 1, j - 1) \o <<item>> \o SubSeq(o, j + 1, Len(o))
        ELSE Append(o, item)

(* cJSON_AddStringToObject(): a new string item at the end of the object *)
cJSON_AddStringToObject(o, k, v) ==
    Append(o, [string |-> k, type |-> cJSON_String, valuestring |-> v])

(* Add the key:value pair to the cJSON object *)
AddPair ==
    /\ pc = "addPair"
    /\ obj' = cJSON_AddStringToObject(obj, key, value)
    /\ pairCount' = pairCount + 1
    /\ spans' = Append(spans, <<keyStart, pos - 1>>)
    /\ pc' = "loop"
    /\ UNCHANGED <<line, pos, keyStart, valueStart, key, value, warnings,
                   result, mainVars, argVars, serverVars>>

(* After the loop: an object without pairs is deleted, else it is returned *)
Finish ==
    /\ pc = "finish"
    /\ IF pairCount = 0
       THEN result' = NULL /\ obj' = <<>>
       ELSE result' = Object(obj) /\ obj' = obj
    /\ pc' = "returned"
    /\ UNCHANGED <<line, pos, keyStart, valueStart, key, value, pairCount,
                   spans, warnings, mainVars, argVars, serverVars>>

----------------------------------------------------------------------------
(* main: the read loop *)

(* A read loop that stops at the first line without a Record *)
AfterNullStop == "exit"

(* if (json == NULL) continue; *)
AfterNull == "getline"

(* The branch on what parseLine returned; the object is printed (cJSON_Print) *)
AfterParse ==
    /\ pc = "returned"
    /\ pc' = IF result = NULL THEN AfterNull ELSE "send"
    /\ outcomes' = Append(outcomes, [line |-> line, result |-> result,
                                     warnings |-> warnings])
    /\ UNCHANGED <<line, pos, locals, warnings, result, file, parsed, sends,
                   sentCount, argVars, serverVars>>

(* sendto(), which may fail, then the clean-up and the pause *)
Send ==
    /\ pc = "send"
    /\ \E ok \in BOOLEAN :
          /\ sends' = Append(sends, result)
          /\ sentCount' = IF ok THEN sentCount + 1 ELSE sentCount
    /\ pc' = "getline"
    /\ UNCHANGED <<line, pos, locals, warnings, result, file, parsed, outcomes,
                   argVars, serverVars>>

(* getline() returns -1: the loop ends and the program exits *)
EndOfFile ==
    /\ pc = "getline"
    /\ file = <<>>
    /\ pc' = "exit"
    /\ UNCHANGED <<line, pos, locals, warnings, result, mainVars, argVars, serverVars>>

----------------------------------------------------------------------------
(* validateArguments (src/utils/utils.c) *)

(* isdigit() of <ctype.h> *)
isdigit(c) == c \in {"0", "1", "2", "3", "4", "5", "6", "7", "8", "9"}

DigitChars == <<"0", "1", "2", "3", "4", "5", "6", "7", "8", "9">>
DigitValue(c) == (CHOOSE k \in 1..Len(DigitChars) : DigitChars[k] = c) - 1

(* inet_pton(AF_INET, ...): the command line carries the four octets of    *)
(* the address, or none when the text is no IPv4 address                   *)
inet_pton(ip) == IF Len(ip) = 4 THEN 1 ELSE 0

(* A long is held as five 16-bit limbs, the least significant first, and   *)
(* an int as its two 16-bit halves, the low one first.                     *)
Limb == 65536
HalfLimb == 32768

Zero == <<0, 0, 0, 0, 0>>

(* n * 10 + d, limb by limb *)
MulAdd(n, d) ==
    LET t1 == n[1] * 10 + d
        t2 == n[2] * 10 + (t1 \div Limb)
        t3 == n[3] * 10 + (t2 \div Limb)
        t4 == n[4] * 10 + (t3 \div Limb)
        t5 == n[5] * 10 + (t4 \div Limb)
    IN  <<t1 % Limb, t2 % Limb, t3 % Limb, t4 % Limb, t5 % Limb>>

Greater(a, b) ==
    \E k \in 1..5 : a[k] > b[k] /\ \A j \in (k + 1)..5 : a[j] = b[j]

(* LONG_MAX where long has 64 bits, and where it has 32 *)
LongBits == {32, 64}
LONG_MAX(bits) ==
    IF bits = 64 THEN <<Limb - 1, Limb - 1, Limb - 1, HalfLimb - 1, 0>>
    ELSE <<Limb - 1, HalfLimb - 1, 0, 0, 0>>

AtMost(n, max) == IF Greater(n, max) THEN max ELSE n

(* The assignment of the long to the int *port keeps its low 32 bits *)
ToInt(long) == <<long[1], long[2]>>

(* *port < 0 || *port > 65535 *)
PortOutOfRange(n) == n[2] >= HalfLimb \/ n[2] \in 1..(HalfLimb - 1)

(* printf("Error: ..."); exit(1); *)
Exit1 ==
    /\ pc' = "exit1"
    /\ UNCHANGED <<args, idx, conv, port>>

(* Step 1: argument count check *)
CheckArgc ==
    /\ pc = "argc"
    /\ IF args.argc < 3 THEN Exit1
       ELSE pc' = "address" /\ UNCHANGED <<args, idx, conv, port>>
    /\ UNCHANGED <<line, pos, locals, warnings, result, mainVars, serverVars>>

(* Step 2: validate the IPv4 address format *)
CheckAddress ==
    /\ pc = "address"
    /\ IF inet_pton(args.ip) # 1 THEN Exit1
       ELSE pc' = "multicast" /\ UNCHANGED <<args, idx, conv, port>>
    /\ UNCHANGED <<line, pos, locals, warnings, result, mainVars, serverVars>>

(* Step 3: the address falls within the multicast range *)
CheckMulticast ==
    /\ pc = "multicast"
    /\ LET firstOctet == args.ip[1]
       IN  IF firstOctet < 224 \/ firstOctet > 239 THEN Exit1
           ELSE pc' = "digits" /\ idx' = 0 /\ UNCHANGED <<args, conv, port>>
    /\ UNCHANGED <<line, pos, locals, warnings, result, mainVars, serverVars>>

(* Step 4: one iteration of the loop over the characters of the port, or   *)
(* its end                                                                 *)
DigitLoop ==
    /\ pc = "digits"
    /\ IF idx < Len(args.port)
       THEN IF ~isdigit(args.port[idx + 1]) THEN Exit1
            ELSE idx' = idx + 1 /\ pc' = pc /\ UNCHANGED <<args, conv, port>>
       ELSE pc' = "strtol" /\ UNCHANGED <<args, idx, conv, port>>
    /\ UNCHANGED <<line, pos, locals, warnings, result, mainVars, serverVars>>

(* Step 5: convert the port string to an integer: strtol(argv[2], NULL,   *)
(* 10) reads a string of digits one digit at a time, and its value is     *)
(* LONG_MAX when the number does not fit a long; then the assignment ...   *)
ConvertPort ==
    /\ pc = "strtol"
    /\ IF conv.at < Len(args.port)
       THEN /\ conv' = [conv EXCEPT
                          !.at = @ + 1,
                          !.acc = AtMost(MulAdd(@, DigitValue(args.port[conv.at + 1])),
                                         LONG_MAX(conv.bits))]
            /\ UNCHANGED <<pc, port>>
       ELSE /\ port' = ToInt(conv.acc)
            /\ pc' = "range"
            /\ UNCHANGED conv
    /\ UNCHANGED <<args, idx>>
    /\ UNCHANGED <<line, pos, locals, warnings, result, mainVars, serverVars>>

(* ... and validate its range; the function returns when it is valid *)
CheckRange ==
    /\ pc = "range"
    /\ IF PortOutOfRange(port) THEN Exit1
       ELSE pc' = "validated" /\ UNCHANGED <<args, idx, conv, port>>
    /\ UNCHANGED <<line, pos, locals, warnings, result, mainVars, serverVars>>

----------------------------------------------------------------------------
(* The receive loop of the server (src/server.c) *)

BUFFER_SIZE == 4096

(* The lengths of the datagrams that arrive: within MaxOver bytes of none  *)
(* and of what the buffer holds                                            *)
MaxOver == 30
DatagramLengths == 0..MaxOver \cup (BUFFER_SIZE - MaxOver)..(BUFFER_SIZE + MaxOver)

Min(a, b) == IF a < b THEN a ELSE b

(* recvfrom(sd, buffer, BUFFER_SIZE, ...): an error, or a datagram, of     *)
(* which at most BUFFER_SIZE bytes are stored and counted.  The buffer is  *)
(* written anew: the NUL of the datagram before is gone.                   *)
Recvfrom ==
    /\ pc = "recvfrom"
    /\ \/ bytesReceived' = -1
       \/ \E n \in DatagramLengths : bytesReceived' = Min(n, BUFFER_SIZE)
    /\ nulIndex' = -1
    /\ pc' = "checkRecv"
    /\ UNCHANGED <<line, pos, locals, warnings, result, mainVars, argVars>>

(* if (bytesReceived == -1) { perror("recvfrom"); continue; } *)
CheckRecv ==
    /\ pc = "checkRecv"
    /\ pc' = IF bytesReceived = -1 THEN "recvfrom" ELSE "terminate"
    /\ UNCHANGED <<line, pos, locals, warnings, result, mainVars, argVars, serverVars>>

(* buffer[bytesReceived] = '\0'; a write past the end of buffer is         *)
(* undefined: the server goes on, or it crashes                            *)
Terminate ==
    /\ pc = "terminate"
    /\ nulIndex' = bytesReceived
    /\ \/ pc' = "parse"
       \/ bytesReceived >= BUFFER_SIZE /\ pc' = "crashed"
    /\ UNCHANGED <<line, pos, locals, warnings, result, mainVars, argVars, bytesReceived>>

(* cJSON_Parse(buffer): the message is printed, or it is no JSON; then the *)
(* next datagram                                                           *)
ParseDatagram ==
    /\ pc = "parse"
    /\ pc' = "recvfrom"
    /\ UNCHANGED <<line, pos, locals, warnings, result, mainVars, argVars, serverVars>>

----------------------------------------------------------------------------
(* The text of a line, as the specification reads it.  These definitions   *)
(* are used by the properties below only: they say what a token of the     *)
(* line is without running the tokenizer.                                  *)

LineEnd(c) == c = NUL \/ c = "\n"
Blank(c) == c \in {" ", "\t", VT, "\f", "\r"}

(* The characters that end a key: whitespace, ':', '"', '\', end of line,  *)
(* end of input                                                            *)
EndsKey(c) == Blank(c) \/ LineEnd(c) \/ c \in {":", "\"", "\\"}

(* The first character at or after p that ends a key *)
KeyEnd(p) ==
    CHOOSE q \in p..(Len(line) + 1) :
        EndsKey(CharAt(q)) /\ \A j \in p..(q - 1) : ~EndsKey(CharAt(j))

(* The token that starts at p is a key of an admissible length and a ':' *)
HasKey(p) ==
    /\ p > 0
    /\ CharAt(KeyEnd(p)) = ":"
    /\ KeyEnd(p) - p \in 1..(MAX_TOKEN - 1)

KeyText(p) == SubSeq(line, p, KeyEnd(p) - 1)

(* parseLine has returned after discarding the line for this one reason *)
Discarded(reason) == pc = "returned" /\ result = NULL /\ warnings = <<reason>>

(* parseLine has returned a Record, and its pairs *)
ReturnedRecord == pc = "returned" /\ result # NULL
Pairs == result.items

(* The text of a value *)

Last(s) == s[Len(s)]

(* The character after the ':' of the token that starts at p *)
ValueAt(p) == KeyEnd(p) + 1

(* An unquoted value ends at whitespace, at the end of the line or input,  *)
(* or at a backslash (which is an error)                                   *)
EndsUnquoted(c) == Blank(c) \/ LineEnd(c) \/ c = "\\"

UnquotedEnd(p) ==
    CHOOSE q \in ValueAt(p)..(Len(line) + 1) :
        EndsUnquoted(CharAt(q)) /\ \A j \in ValueAt(p)..(q - 1) : ~EndsUnquoted(CharAt(j))

(* The token that starts at p is a key, a ':' and a non-empty unquoted value *)
IsUnquotedToken(p) ==
    /\ HasKey(p)
    /\ CharAt(ValueAt(p)) # "\""
    /\ UnquotedEnd(p) > ValueAt(p)
    /\ CharAt(UnquotedEnd(p)) # "\\"

UnquotedText(p) == SubSeq(line, ValueAt(p), UnquotedEnd(p) - 1)

(* The token that starts at p is a key, a ':' and an opening quote *)
IsQuotedToken(p) == HasKey(p) /\ CharAt(ValueAt(p)) = "\""

(* In the quoted value opened at q0: the number of backslashes in a row    *)
(* just before j.  The character at j is escaped when that number is odd;  *)
(* a backslash that is not escaped starts an escape.                       *)
BackslashRun(q0, j) ==
    CHOOSE r \in 0..(j - 1 - q0) :
        CharAt(j - 1 - r) # "\\" /\ \A i \in 0..(r - 1) : CharAt(j - 1 - i) = "\\"

IsEscaped(q0, j) == BackslashRun(q0, j) % 2 = 1

StartsEscape(q0, j) == CharAt(j) = "\\" /\ ~IsEscaped(q0, j)

ValidEscapes == {"\"", "\\", "n", "t", "r"}

Unescape(c) ==
    CASE c = "n" -> "\n"
      [] c = "t" -> "\t"
      [] c = "r" -> "\r"
      [] OTHER -> c

(* What ends the walk through a quoted value: a bare '"', the end of the   *)
(* line or input, a backslash that no valid escape follows                 *)
EndsQuoted(q0, j) ==
    /\ ~IsEscaped(q0, j)
    /\ \/ CharAt(j) = "\""
       \/ LineEnd(CharAt(j))
       \/ CharAt(j) = "\\" /\ CharAt(j + 1) \notin ValidEscapes

QuotedEnd(q0) ==
    CHOOSE j \in (q0 + 1)..(Len(line) + 1) :
        EndsQuoted(q0, j) /\ \A i \in (q0 + 1)..(j - 1) : ~EndsQuoted(q0, i)

(* The content between q0 and e with every escape replaced by the one      *)
(* character it stands for                                                 *)
Content(q0, e) ==
    LET kept == SelectSeq([i \in 1..(e - 1 - q0) |-> q0 + i],
                          LAMBDA j : ~StartsEscape(q0, j))
    IN  [i \in 1..Len(kept) |->
            IF IsEscaped(q0, kept[i]) THEN Unescape(CharAt(kept[i])) ELSE CharAt(kept[i])]

(* The token that starts at p has a quoted value that a bare '"' closes *)
WellFormedQuoted(p) == IsQuotedToken(p) /\ CharAt(QuotedEnd(ValueAt(p))) = "\""

(* The text to store for it: the quote, the content, the quote *)
QuotedText(p) ==
    <<"\"">> \o Content(ValueAt(p), QuotedEnd(ValueAt(p))) \o <<"\"">>

(* The token at p is the last pair of the Record returned, with this value *)
LastPairIs(p, text) ==
    /\ ReturnedRecord
    /\ Last(Pairs).string = KeyText(p)
    /\ Last(Pairs).valuestring = text

(* The other types of a cJSON item: booleans and numbers *)
cJSON_True == "cJSON_True"
cJSON_False == "cJSON_False"
cJSON_Number == "cJSON_Number"

(* The text of the i-th pair of the Record began at this index *)
PairAt(i) == spans[i][1]

(* The numeric grammar: an optional sign, digits, an optional fractional   *)
(* part, an optional exponent                                              *)
Digits == {"0", "1", "2", "3", "4", "5", "6", "7", "8", "9"}

AreDigits(text, from, to) ==
    from <= to /\ \A k \in from..to : text[k] \in Digits

IsExponent(text, from) ==
    /\ from <= Len(text)
    /\ text[from] \in {"e", "E"}
    /\ \/ AreDigits(text, from + 1, Len(text))
       \/ /\ from + 1 <= Len(text)
          /\ text[from + 1] \in {"+", "-"}
          /\ AreDigits(text, from + 2, Len(text))

IsNumeric(text) ==
    \E sign \in 0..1 :
      /\ sign = 1 => Len(text) >= 1 /\ text[1] \in {"+", "-"}
      /\ \E intEnd \in (sign + 1)..Len(text) :
           /\ AreDigits(text, sign + 1, intEnd)
           /\ \E fracEnd \in intEnd..Len(text) :
                /\ \/ fracEnd = intEnd
                   \/ text[intEnd + 1] = "." /\ AreDigits(text, intEnd + 2, fracEnd)
                /\ fracEnd = Len(text) \/ IsExponent(text, fracEnd + 1)

(* The token that starts at p is a well-formed pair, short enough to store *)
WellFormedPair(p) ==
    \/ IsUnquotedToken(p) /\ Len(UnquotedText(p)) < MAX_TOKEN
    \/ WellFormedQuoted(p) /\ Len(QuotedText(p)) < MAX_TOKEN

(* The index of the last character of the well-formed pair that starts at p *)
PairEnd(p) ==
    IF IsQuotedToken(p) THEN QuotedEnd(ValueAt(p)) ELSE UnquotedEnd(p) - 1

PairValue(p) == IF IsQuotedToken(p) THEN QuotedText(p) ELSE UnquotedText(p)

----------------------------------------------------------------------------
(* C1. Atomicity: when parseLine reports a fatal error for a line, it      *)
(* returns NULL, whatever number of pairs it had already added; it never   *)
(* returns a Record of the pairs that came before the error.  Read from    *)
(* the text: when the last token parseLine started is not a well-formed    *)
(* pair, it reports an error and returns NULL.                             *)
C1_Atomicity ==
    pc = "returned" =>
        /\ warnings # <<>> => result = NULL /\ obj = <<>>
        /\ keyStart > 0 /\ ~WellFormedPair(keyStart)
              => result = NULL /\ warnings # <<>>

(* Two pairs had been added when the third token, not a pair, failed *)
C1_Witness ==
    /\ pc = "returned"
    /\ pairCount >= 2
    /\ ~WellFormedPair(keyStart)
    /\ warnings # <<>>
    /\ result = NULL

(* C2. Key-scan error kind: when the key scan of the failing token stops   *)
(* on a character other than ':', the line is discarded and the reason is  *)
(* decided by that character: WhitespaceInKey for a space or tab,          *)
(* QuoteInKey for '"', BackslashInKey for '\', MissingColon for the line   *)
(* terminator and for the end of input.                                    *)
ClaimedKeyKind(c) ==
    IF LineEnd(c) THEN "MissingColon"
    ELSE IF c = "\"" THEN "QuoteInKey"
    ELSE IF c = "\\" THEN "BackslashInKey"
    ELSE "WhitespaceInKey"

C2_KeyScanErrorKind ==
    pc = "returned" /\ keyStart > 0 /\ CharAt(KeyEnd(keyStart)) # ":"
        => Discarded(ClaimedKeyKind(CharAt(KeyEnd(keyStart))))

(* C3. Bare key with no value: when the failing token is a key and a ':'   *)
(* immediately followed by the end of input or by the line terminator, the *)
(* line is discarded with EmptyUnquotedValue, earlier pairs included.      *)
BareKey(p) == HasKey(p) /\ LineEnd(CharAt(KeyEnd(p) + 1))

C3_BareKeyEmptyValue ==
    pc = "returned" /\ BareKey(keyStart) => Discarded("EmptyUnquotedValue")

(* C4. Boundary of the token limit: a key of exactly MAX_TOKEN bytes is    *)
(* rejected with KeyTooLong and one of MAX_TOKEN - 1 bytes is accepted; an *)
(* unquoted value of exactly MAX_TOKEN bytes is rejected with ValueTooLong *)
(* and one of MAX_TOKEN - 1 bytes is accepted; a quoted value whose stored *)
(* text (both quotes counted, each escape counted as one character) is     *)
(* exactly MAX_TOKEN bytes is rejected with ValueTooLong and one of        *)
(* MAX_TOKEN - 1 bytes is accepted.  (The token is the last one started.)  *)
C4_TokenLimit ==
    pc = "returned" /\ keyStart > 0 =>
        LET p == keyStart
            keyLen == KeyEnd(p) - p
        IN  /\ CharAt(KeyEnd(p)) = ":" /\ keyLen = MAX_TOKEN
                => Discarded("KeyTooLong")
            /\ CharAt(KeyEnd(p)) = ":" /\ keyLen = MAX_TOKEN - 1
                => key = KeyText(p) /\ warnings # <<"KeyTooLong">>
            /\ IsUnquotedToken(p) /\ Len(UnquotedText(p)) = MAX_TOKEN
                => Discarded("ValueTooLong")
            /\ IsUnquotedToken(p) /\ Len(UnquotedText(p)) = MAX_TOKEN - 1
                => LastPairIs(p, UnquotedText(p))
            /\ WellFormedQuoted(p) /\ Len(QuotedText(p)) = MAX_TOKEN
                => Discarded("ValueTooLong")
            /\ WellFormedQuoted(p) /\ Len(QuotedText(p)) = MAX_TOKEN - 1
                => LastPairIs(p, QuotedText(p))

(* A quoted value with an escape in it, MAX_TOKEN bytes to store, rejected *)
C4_Witness ==
    /\ Discarded("ValueTooLong")
    /\ WellFormedQuoted(keyStart)
    /\ Len(QuotedText(keyStart)) = MAX_TOKEN
    /\ \E j \in 1..Len(line) : StartsEscape(ValueAt(keyStart), j) /\ j > ValueAt(keyStart)

(* C5. Quote literalism: the value stored for a well-formed quoted value   *)
(* is the opening '"', the content with each escape replaced by its single *)
(* character and every other character unchanged, and the closing '"'.     *)
(* This holds of every pair of a returned Record, and a line whose last    *)
(* token is such a value (short enough to store) returns a Record.         *)
C5_QuoteLiteralism ==
    /\ ReturnedRecord =>
          \A i \in 1..Len(Pairs) :
              LET p == spans[i][1]
              IN  IsQuotedToken(p) =>
                    /\ WellFormedQuoted(p)
                    /\ spans[i][2] = QuotedEnd(ValueAt(p))
                    /\ Pairs[i].string = KeyText(p)
                    /\ Pairs[i].valuestring = QuotedText(p)
    /\ pc = "returned" /\ WellFormedQuoted(keyStart)
            /\ Len(QuotedText(keyStart)) < MAX_TOKEN
          => LastPairIs(keyStart, QuotedText(keyStart))

(* k:"a\"b" has been stored as "a"b" *)
C5_Witness ==
    /\ ReturnedRecord
    /\ line = <<"k", ":", "\"", "a", "\\", "\"", "b", "\"">>
    /\ Pairs = <<[string |-> <<"k">>, type |-> cJSON_String,
                  valuestring |-> <<"\"", "a", "\"", "b", "\"">>]>>

(* C6. Quoted-value violations: when the walk through a quoted value       *)
(* comes to a backslash followed by a character that is no escape, the     *)
(* line is discarded with UnknownEscape; to a backslash followed by the    *)
(* line terminator or the end of input, with TrailingBackslash; to the     *)
(* line terminator or the end of input before a bare closing '"', with     *)
(* UnclosedQuote.  (The walk comes there when what it stored on the way    *)
(* fits the value buffer.)                                                 *)
C6_QuotedViolations ==
    pc = "returned" /\ IsQuotedToken(keyStart) =>
        LET q0 == ValueAt(keyStart)
            e == QuotedEnd(q0)
        IN  Len(Content(q0, e)) + 1 <= MAX_TOKEN - 1 =>
              /\ CharAt(e) = "\\" /\ ~LineEnd(CharAt(e + 1)) => Discarded("UnknownEscape")
              /\ CharAt(e) = "\\" /\ LineEnd(CharAt(e + 1)) => Discarded("TrailingBackslash")
              /\ LineEnd(CharAt(e)) => Discarded("UnclosedQuote")

(* A backslash and then the line terminator, after a pair had been added *)
C6_Witness ==
    /\ Discarded("TrailingBackslash")
    /\ IsQuotedToken(keyStart)
    /\ CharAt(pos) = "\\" /\ CharAt(pos + 1) = "\n"
    /\ pairCount >= 1

(* C7. Boolean classification: an unquoted value that equals "true" or     *)
(* "false" ignoring letter case is stored in the Record as a boolean with  *)
(* that bit; any other unquoted value is not stored as a boolean.          *)
C7_BooleanClassification ==
    ReturnedRecord =>
        \A i \in 1..Len(Pairs) :
            IsUnquotedToken(PairAt(i)) =>
                LET text == UnquotedText(PairAt(i))
                IN  /\ IsTrueLiteral(text) => Pairs[i].type = cJSON_True
                    /\ IsFalseLiteral(text) => Pairs[i].type = cJSON_False
                    /\ ~IsTrueLiteral(text) /\ ~IsFalseLiteral(text)
                          => Pairs[i].type \notin {cJSON_True, cJSON_False}

(* C8. Numeric classification: an unquoted value that is no boolean        *)
(* literal and that the numeric grammar consumes entirely is stored as a   *)
(* number; one with trailing non-numeric characters is stored as a string  *)
(* holding the raw text unchanged.  (The number stored is not stated here: *)
(* the type of the item suffices.)                                         *)
C8_NumericClassification ==
    ReturnedRecord =>
        \A i \in 1..Len(Pairs) :
            IsUnquotedToken(PairAt(i)) =>
                LET text == UnquotedText(PairAt(i))
                IN  ~IsTrueLiteral(text) /\ ~IsFalseLiteral(text) =>
                      /\ IsNumeric(text) => Pairs[i].type = cJSON_Number
                      /\ ~IsNumeric(text) =>
                            /\ Pairs[i].type = cJSON_String
                            /\ Pairs[i].valuestring = text

(* C9. Quoting forces string type: every value that began with '"' is      *)
(* stored as a string, whatever its content, also when the content reads   *)
(* as a boolean or as a number.                                            *)
C9_QuotingForcesString ==
    ReturnedRecord =>
        \A i \in 1..Len(Pairs) :
            IsQuotedToken(PairAt(i)) =>
                /\ Pairs[i].type = cJSON_String
                /\ Pairs[i].valuestring = QuotedText(PairAt(i))

(* k:"true" has been stored, as a string *)
C9_Witness ==
    /\ ReturnedRecord
    /\ IsQuotedToken(PairAt(1))
    /\ IsTrueLiteral(Content(ValueAt(PairAt(1)), QuotedEnd(ValueAt(PairAt(1)))))
    /\ Pairs[1].type = cJSON_String

(* C10. Record order and count: a returned Record is read off the line     *)
(* pair by pair.  The line, up to its end, is n >= 1 well-formed pairs, one *)
(* after the other, with nothing but whitespace around them; the Record    *)
(* holds exactly n pairs and its i-th pair has the key and the value of    *)
(* the i-th of them (equal keys stay separate pairs).  And a line whose    *)
(* last token is a well-formed pair does return a Record.                  *)
C10_RecordOrderAndCount ==
    /\ ReturnedRecord =>
          /\ Len(Pairs) >= 1
          /\ Len(Pairs) = pairCount
          /\ Len(spans) = Len(Pairs)
          /\ LineEnd(CharAt(pos))
          /\ \A i \in 1..Len(Pairs) :
                /\ WellFormedPair(PairAt(i))
                /\ spans[i][2] = PairEnd(PairAt(i))
                /\ Pairs[i].string = KeyText(PairAt(i))
                /\ Pairs[i].valuestring = PairValue(PairAt(i))
          /\ \A i \in 1..(Len(Pairs) - 1) : spans[i][2] < spans[i + 1][1]
          /\ \A q \in 1..(pos - 1) :
                \/ \E i \in 1..Len(Pairs) : q \in spans[i][1]..spans[i][2]
                \/ isspace(CharAt(q))
    /\ pc = "returned" /\ WellFormedPair(keyStart) => ReturnedRecord

(* Three pairs, the first and the third with the same key *)
C10_Witness ==
    /\ ReturnedRecord
    /\ Len(Pairs) = 3
    /\ Pairs[1].string = Pairs[3].string
    /\ Pairs[1].valuestring # Pairs[3].valuestring
    /\ Pairs[2].string # Pairs[1].string

(* C11. Empty lines: a line that is empty, only a line terminator or only  *)
(* whitespace yields NULL and no warning is printed for it; and a Record   *)
(* is returned only with at least one pair in it.                          *)
OnlyWhitespace == \A k \in 1..Len(line) : Blank(line[k]) \/ line[k] = "\n"

C11_EmptyLines ==
    pc = "returned" =>
        /\ OnlyWhitespace => result = NULL /\ warnings = <<>>
        /\ result # NULL => Len(Pairs) >= 1 /\ pairCount >= 1

(* A line of a carriage return and the line terminator was Empty *)
C11_Witness ==
    /\ pc = "returned"
    /\ OnlyWhitespace
    /\ \E k \in 1..Len(line) : line[k] = "\r"
    /\ Last(line) = "\n"
    /\ result = NULL
    /\ warnings = <<>>

(* C12. Key validity: in every Record parseLine returns, every key is      *)
(* non-empty, shorter than MAX_TOKEN bytes and has no whitespace, no ':',  *)
(* no '"' and no '\' in it; and every unquoted value is non-empty and has  *)
(* no whitespace and no '\' in it.                                         *)
IsWhitespace(c) == Blank(c) \/ c = "\n"

C12_KeyValidity ==
    ReturnedRecord =>
        \A n \in 1..Len(Pairs) :
            LET k == Pairs[n].string
                v == Pairs[n].valuestring
            IN  /\ Len(k) \in 1..(MAX_TOKEN - 1)
                /\ \A j \in 1..Len(k) :
                      ~IsWhitespace(k[j]) /\ k[j] \notin {":", "\"", "\\"}
                /\ ~IsQuotedToken(PairAt(n)) =>
                      /\ Len(v) >= 1
                      /\ \A j \in 1..Len(v) : ~IsWhitespace(v[j]) /\ v[j] # "\\"

(* A key of MAX_TOKEN - 1 bytes and an unquoted value are in the Record *)
C12_Witness ==
    /\ ReturnedRecord
    /\ Len(Pairs[1].string) = MAX_TOKEN - 1
    /\ ~IsQuotedToken(PairAt(1))
    /\ Len(Pairs[1].valuestring) >= 1

(* C13. Ingestion never aborts on a parse failure: the read loop hands     *)
(* every line of the file to parseLine exactly once, in file order,        *)
(* whatever came of the lines before (a Record, Empty, a failure, a failed *)
(* sendto); one send is attempted for each line that yields a Record, in   *)
(* the same order, and none for the other lines; and the loop comes to the *)
(* end of the file.                                                        *)
Records(outs) ==
    LET recs == SelectSeq(outs, LAMBDA o : o.result # NULL)
    IN  [k \in 1..Len(recs) |-> recs[k].result]

(* The sends attempted, the one about to be made included *)
Attempted == IF pc = "send" THEN Append(sends, result) ELSE sends

InFileOrder ==
    /\ parsed \o file \in Files
    /\ Len(outcomes) \in {Len(parsed) - 1, Len(parsed)}
    /\ pc \in {"getline", "send", "exit"} => Len(outcomes) = Len(parsed)
    /\ \A k \in 1..Len(outcomes) : outcomes[k].line = parsed[k]
    /\ Attempted = Records(outcomes)
    /\ pc = "exit" => file = <<>>

IsNumericPort(s) == Len(s) >= 1 /\ \A k \in 1..Len(s) : s[k] \in Digits

DigitOf(c) ==
    CASE c = "0" -> 0 [] c = "1" -> 1 [] c = "2" -> 2 [] c = "3" -> 3 [] c = "4" -> 4
      [] c = "5" -> 5 [] c = "6" -> 6 [] c = "7" -> 7 [] c = "8" -> 8 [] c = "9" -> 9

(* The digits of s without the leading zeros *)
Significant(s) ==
    IF \A k \in 1..Len(s) : s[k] = "0" THEN <<>>
    ELSE SubSeq(s, CHOOSE k \in 1..Len(s) : s[k] # "0" /\ \A j \in 1..(k - 1) : s[j] = "0",
                Len(s))

RECURSIVE DecimalValue(_)
DecimalValue(s) ==
    IF s = <<>> THEN 0 ELSE 10 * DecimalValue(SubSeq(s, 1, Len(s) - 1)) + DigitOf(Last(s))

InPortRange(s) ==
    Len(Significant(s)) <= 5 /\ DecimalValue(Significant(s)) <= 65535

OtherArgumentsValid ==
    args.argc >= 3 /\ Len(args.ip) = 4 /\ args.ip[1] \in 224..239

C14_PortValidation ==
    pc \in {"validated", "exit1"} /\ OtherArgumentsValid =>
        (pc = "validated" <=> IsNumericPort(args.port) /\ InPortRange(args.port))

ScanLoops == {"skipLead", "skipWs", "keyScan", "quoted", "unquoted"}

Reading ==
    ScanLoops \cup {"checkEmpty", "loop", "keyCheck", "afterColon", "closeQuote",
                    "unquotedCheck"}

(* The indices of the line that the next step of parseLine reads *)
Reads ==
    IF pc \notin Reading THEN {}
    ELSE {pos}
         \cup (IF pc = "quoted" /\ CharAt(pos) = "\\" THEN {pos + 1} ELSE {})
         \cup (IF pc = "keyCheck" THEN keyStart..(pos - 1) ELSE {})
         \cup (IF pc = "unquotedCheck" THEN valueStart..(pos - 1) ELSE {})

ReadsInBounds == Reads \subseteq 1..(Len(line) + 1)

MovesForward ==
    /\ pc # "getline" => pos' >= pos
    /\ pc \in ScanLoops /\ pc' = pc => pos' > pos
    /\ pc = "addPair" => pos' > keyStart /\ keyStart >= 1

C16_TerminationAndBounds ==
    /\ [][MovesForward]_vars
    /\ []ReadsInBounds
    /\ (pc = "skipLead" ~> pc = "returned")

(* The look-ahead after a backslash, the last character, read the NUL *)
C16_Witness ==
    /\ pc = "returned"
    /\ warnings = <<"TrailingBackslash">>
    /\ CharAt(pos) = "\\"
    /\ pos = Len(line)
    /\ pairCount >= 1

(* C17. The receive buffer of the server stays in bounds: whatever length  *)
(* recvfrom returns, the index at which the server writes the terminating  *)
(* NUL is an index of the buffer of BUFFER_SIZE bytes: it is less than     *)
(* BUFFER_SIZE.                                                            *)
NulWritten == nulIndex # -1

C17_ReceiveBufferInBounds ==
    NulWritten => nulIndex \in 0..(BUFFER_SIZE - 1)

(* C18. Pairs are whitespace-separated: in every Record parseLine returns, *)
(* each pair after the first began in the line only after at least one     *)
(* whitespace character that follows the value of the pair before it; a    *)
(* pair that starts right after the closing quote of a quoted value does   *)
(* not make a Record of two pairs.                                         *)
C18_WhitespaceSeparated ==
    ReturnedRecord =>
        \A n \in 2..Len(Pairs) :
            \E q \in (spans[n - 1][2] + 1)..(spans[n][1] - 1) : IsWhitespace(CharAt(q))

(* C19. Only the first line counts: what parseLine returns for a string (a *)
(* Record and its contents, NULL, the failure reason) is what it returns   *)
(* for the string truncated at its first line terminator; no character at  *)
(* or after the first line terminator has an influence on it.              *)
C19_OnlyFirstLineCounts ==
    Len(outcomes) = 2 /\ outcomes[2].line = Truncate(outcomes[1].line) =>
        /\ outcomes[1].result = outcomes[2].result
        /\ outcomes[1].warnings = outcomes[2].warnings

----------------------------------------------------------------------------
(* The client: the command line has been validated, the socket made and   *)
(* the file opened                                                         *)

ValidCommandLine ==
    [argc |-> 3, ip |-> <<239, 0, 0, 1>>, port |-> <<"5", "0", "0", "0">>]

(* No call of parseLine yet *)
NotParsing ==
    /\ line = <<>>
    /\ pos = 1
    /\ keyStart = 0
    /\ valueStart = 0
    /\ key = <<>>
    /\ value = <<>>
    /\ obj = <<>>
    /\ pairCount = 0
    /\ warnings = <<>>
    /\ result = NULL
    /\ spans = <<>>
    /\ parsed = <<>>
    /\ sends = <<>>
    /\ outcomes = <<>>
    /\ sentCount = 0

(* The server is another process *)
NotServing ==
    /\ bytesReceived = 0
    /\ nulIndex = -1

Validated ==
    /\ args = ValidCommandLine
    /\ idx = Len(ValidCommandLine.port)
    /\ conv = [bits |-> 64, at |-> Len(ValidCommandLine.port),
                acc |-> <<5000, 0, 0, 0, 0>>]
    /\ port = <<5000, 0>>

Init ==
    /\ file \in Files
    /\ pc = "getline"
    /\ NotParsing
    /\ Validated
    /\ NotServing

Next ==
    \/ GetLine
    \/ SkipLeading
    \/ CheckEmpty
    \/ LoopTest
    \/ SkipBetween
    \/ KeyScan
    \/ KeyCheck
    \/ AfterColon
    \/ QuotedScan
    \/ CloseQuote
    \/ UnquotedScan
    \/ UnquotedCheck
    \/ AddPair
    \/ Finish
    \/ AfterParse
    \/ Send
    \/ EndOfFile

Spec == Init /\ [][Next]_vars

(* The read loop is sequential code: a step that can be taken is taken *)
FairSpec == Spec /\ WF_vars(Next)

(* parseLine, applied to a string and then to the string truncated at its  *)
(* first line terminator                                                   *)
TruncationInit ==
    /\ file \in TruncationFiles
    /\ pc = "getline"
    /\ NotParsing
    /\ Validated
    /\ NotServing

TruncationSpec == TruncationInit /\ [][Next]_vars

(* validateArguments, called with each command line *)
ArgsInit ==
    /\ args \in CommandLines
    /\ idx = 0
    /\ conv \in [bits : LongBits, at : {0}, acc : {Zero}]
    /\ port = <<0, 0>>
    /\ pc = "argc"
    /\ file = <<>>
    /\ NotParsing
    /\ NotServing

ArgsNext ==
    \/ CheckArgc
    \/ CheckAddress
    \/ CheckMulticast
    \/ DigitLoop
    \/ ConvertPort
    \/ CheckRange

ArgsSpec == ArgsInit /\ [][ArgsNext]_vars

(* The server, after its set-up, in its receive loop *)
ServerInit ==
    /\ pc = "recvfrom"
    /\ bytesReceived = 0
    /\ nulIndex = -1
    /\ file = <<>>
    /\ NotParsing
    /\ Validated

ServerNext ==
    \/ Recvfrom
    \/ CheckRecv
    \/ Terminate
    \/ ParseDatagram

ServerSpec == ServerInit /\ [][ServerNext]_vars
====
